---- MODULE Spec2Model ----
(***************************************************************************)
(* Visibility subsystem of jverce/cadence: the serializer, the search      *)
(* index (ElasticSearch) visibility store with its two paging modes, and   *)
(* the wrapper stack the frontend service builds around it.                *)
(*                                                                         *)
(* Conventions of the model                                                *)
(*  - a Go pointer or slice is a sequence of length 0 (nil) or 1 (the      *)
(*    value it points to);                                                 *)
(*  - a byte string is a sequence: <<>> is the empty byte string, a JSON   *)
(*    or thrift document is <<lead, type, payload>> where lead is its      *)
(*    first byte ("{" object, "[" array, "null", "Y" the thriftrw version  *)
(*    byte, "#" bytes that are no document at all);                        *)
(*  - run ids are positive integers ordered as the strings are; 0 is the   *)
(*    empty string;                                                        *)
(*  - times are int64 nanoseconds.                                         *)
(***************************************************************************)
EXTENDS Integers, Sequences, FiniteSets, TLC

VARIABLES
    index,      \* documents currently in the search index
    status,     \* paging session of the caller: idle, paging, done, failed
    request,    \* the list request the session re-issues
    op,         \* the list operation of the session
    nextToken,  \* token the caller passes with the next call
    got,        \* concatenation of the Executions of the pages received
    calls,      \* number of calls of the session
    changes,    \* index changes since the session started
    last,       \* what the last list call did: token in, query, hits, response
    getResp,    \* outcome of the last GetClosedWorkflowExecution
    logged,     \* entries the last operation wrote to the logger
    recorded,   \* outcome of the last Record* call on the search store
    ser,        \* last serializer call: inputs and outputs
    stack,      \* visibility wrappers around the search store, outermost first
    bucket,     \* tokens left in the rate limiter's bucket
    quota,      \* list calls the sampling wrapper still admits this second
    counters,   \* metrics and backend counters
    lastReq,    \* path and outcome of the last request through the stack
    serializer, \* the fields of the one serializerImpl the callers share
    procs,      \* concurrent callers of the serializer: position and call
    targets,    \* the variable each running Deserialize* call decodes into
    closedCount,\* number of rows of closed_executions_v2 for the domain
    cassSession,\* paging session of the caller of the columnar V2 store
    cassLast,   \* what the last closed-list call of the V2 store did
    passed,     \* the last call the V2 store handed to the wrapped manager
    deleted,    \* outcome of the last DeleteWorkflowExecution, either store
    svc,        \* frontend Service: position of Start, Stop calls and their fate
    notificationVersion, \* domain_metadata.notification_version as stored
    updaters,   \* clients of the domain metadata table: position and row held
    applied     \* per version, the updates carrying it that changed the row

esVars == <<index, status, request, op, nextToken, got, calls, changes, last, getResp, logged,
           recorded>>
serVars == <<ser>>
stackVars == <<stack, bucket, quota, counters, lastReq, svc>>
concVars == <<serializer, procs, targets>>
cassVars == <<closedCount, cassSession, cassLast, passed, deleted>>
metaVars == <<notificationVersion, updaters, applied>>
vars == <<index, status, request, op, nextToken, got, calls, changes, last, getResp, logged,
          recorded, ser, stack, bucket, quota, counters, lastReq,
          serializer, procs, targets, closedCount, cassSession, cassLast, passed, deleted,
          svc, notificationVersion, updaters, applied>>

----------------------------------------------------------------------------
(* Bounds *)

ESIndexMaxResultWindow == 2
MaxPageSize == 2
MaxCalls == 4
MaxChanges == 1
MaxEventId == 2
MaxBatch == 2
MaxRequests == 6
BucketSize == 2
NumCallers == 2
MaxRecords == 25
MaxStops == 3
NumClients == 2
MaxVersion == 3

Min(a, b) == IF a < b THEN a ELSE b

----------------------------------------------------------------------------
(* common.EncodingType *)

EncodingTypeJSON == "json"
EncodingTypeThriftRW == "thriftrw"
EncodingTypeGob == "gob"
EncodingTypeUnknown == "unknown"
EncodingTypeEmpty == ""

----------------------------------------------------------------------------
(* Serializer: common/persistence/serializer.go *)

NoError == <<>>

NewUnknownEncodingTypeError(encodingType) ==
    <<"UnknownEncodingTypeError", encodingType>>

NewCadenceSerializationError(msg) ==
    <<"CadenceSerializationError", msg>>

NewCadenceDeserializationError(msg, encoding) ==
    <<"CadenceDeserializationError", msg, encoding>>

\* Zero values of the three kinds (var event workflow.HistoryEvent, ...)
ZeroValue(kind) ==
    CASE kind = "HistoryEvent" -> [EventId |-> 0]
      [] kind = "Batch" -> <<>>
      [] kind = "Memo" -> [Fields |-> <<>>]

PayloadOf(kind, v) ==
    CASE kind = "HistoryEvent" -> <<v.EventId>>
      [] kind = "Batch" -> [i \in 1..Len(v) |-> v[i].EventId]
      [] kind = "Memo" -> v.Fields

ValueOf(kind, payload) ==
    CASE kind = "HistoryEvent" -> [EventId |-> payload[1]]
      [] kind = "Batch" -> [i \in 1..Len(payload) |-> [EventId |-> payload[i]]]
      [] kind = "Memo" -> [Fields |-> payload]

\* encoding/json Marshal of a pointer or slice: null for nil, an object for a
\* struct, an array for a slice.  marshalErr is the outcome of the step.
jsonMarshal(kind, input, marshalErr) ==
    IF marshalErr THEN [data |-> <<>>, err |-> <<"json: error">>]
    ELSE IF input = <<>> THEN [data |-> <<"null", "", <<>>>>, err |-> NoError]
    ELSE IF kind = "Batch"
         THEN [data |-> <<"[", "HistoryEvent", PayloadOf(kind, input[1])>>, err |-> NoError]
         ELSE [data |-> <<"{", kind, PayloadOf(kind, input[1])>>, err |-> NoError]

\* encoding/json Unmarshal into a target of the given kind: null leaves the
\* target alone, an object of another struct has no known field and leaves
\* the zero value, an array does not fit a struct nor an object a slice.
jsonUnmarshal(data, kind, target) ==
    IF data[1] = "null" THEN [val |-> target, err |-> NoError]
    ELSE IF data[1] = "{" /\ kind # "Batch"
         THEN [val |-> IF data[2] = kind THEN ValueOf(kind, data[3]) ELSE target,
               err |-> NoError]
    ELSE IF data[1] = "[" /\ kind = "Batch" /\ data[2] = "HistoryEvent"
         THEN [val |-> ValueOf(kind, data[3]), err |-> NoError]
    ELSE [val |-> target, err |-> <<"json: cannot unmarshal">>]

\* codec.ThriftRWEncoder: a version byte followed by the binary struct
ThriftTypeOf(kind) == IF kind = "Batch" THEN "History" ELSE kind

thriftrwEncoderEncode(typeName, payload, marshalErr) ==
    IF marshalErr THEN [data |-> <<>>, err |-> <<"thriftrw: error">>]
    ELSE [data |-> <<"Y", typeName, payload>>, err |-> NoError]

thriftrwEncoderDecode(data, typeName) ==
    IF data[1] = "Y" /\ data[2] = typeName
    THEN [payload |-> data[3], err |-> NoError]
    ELSE [payload |-> <<>>, err |-> <<"thriftrw: cannot decode">>]

\* serializerImpl.thriftrwEncode
thriftrwEncode(kind, input, marshalErr) ==
    CASE kind = "Batch" ->
            thriftrwEncoderEncode("History",
                IF input = <<>> THEN <<>> ELSE PayloadOf(kind, input[1]), marshalErr)
      [] kind \in {"HistoryEvent", "Memo"} ->
            IF input = <<>>
            THEN [data |-> <<>>, err |-> <<"thriftrw: nil">>]
            ELSE thriftrwEncoderEncode(kind, PayloadOf(kind, input[1]), marshalErr)
      [] OTHER -> [data |-> <<>>, err |-> NoError]

\* NewDataBlob that tags a blob written without a tag as JSON
NewDataBlob_tagJSON(data, encodingType) ==
    IF Len(data) = 0 THEN <<>>
    ELSE <<[Data |-> data,
            Encoding |-> IF encodingType = EncodingTypeEmpty THEN EncodingTypeJSON
                         ELSE encodingType]>>

\* persistence.NewDataBlob: no blob for no data
NewDataBlob(data, encodingType) ==
    IF Len(data) = 0 THEN <<>> ELSE <<[Data |-> data, Encoding |-> encodingType]>>

\* GetEncoding that takes a tag it does not know for gob
GetEncoding_unknownIsGob(blob) ==
    IF blob.Encoding \in {EncodingTypeGob, EncodingTypeJSON, EncodingTypeThriftRW, EncodingTypeEmpty}
    THEN blob.Encoding
    ELSE EncodingTypeGob

\* DataBlob.GetEncoding
GetEncoding(blob) ==
    IF blob.Encoding \in {EncodingTypeGob, EncodingTypeJSON, EncodingTypeThriftRW, EncodingTypeEmpty}
    THEN blob.Encoding
    ELSE EncodingTypeUnknown

\* serializerImpl.serialize.  The three public operations pass a typed
\* pointer or slice, so the interface value is nil for no input kind.
IsNilInterface(kind) == kind = "untyped nil"

\* serialize with the gob tag let through to the JSON case
serialize_gobAsJSON(kind, input, encodingType, marshalErr) ==
    IF IsNilInterface(kind) THEN [blob |-> <<>>, err |-> NoError]
    ELSE IF encodingType \notin {EncodingTypeThriftRW, EncodingTypeJSON, EncodingTypeGob,
                                 EncodingTypeUnknown, EncodingTypeEmpty}
         THEN [blob |-> <<>>, err |-> NewUnknownEncodingTypeError(encodingType)]
    ELSE LET r == IF encodingType = EncodingTypeThriftRW
                  THEN thriftrwEncode(kind, input, marshalErr)
                  ELSE jsonMarshal(kind, input, marshalErr)
         IN IF r.err # NoError
            THEN [blob |-> <<>>, err |-> NewCadenceSerializationError(r.err[1])]
            ELSE [blob |-> NewDataBlob(r.data, encodingType), err |-> NoError]

serialize(kind, input, encodingType, marshalErr) ==
    IF IsNilInterface(kind) THEN [blob |-> <<>>, err |-> NoError]
    ELSE IF encodingType \notin {EncodingTypeThriftRW, EncodingTypeJSON,
                                 EncodingTypeUnknown, EncodingTypeEmpty}
         THEN [blob |-> <<>>, err |-> NewUnknownEncodingTypeError(encodingType)]
    ELSE LET r == IF encodingType = EncodingTypeThriftRW
                  THEN thriftrwEncode(kind, input, marshalErr)
                  ELSE jsonMarshal(kind, input, marshalErr)
         IN IF r.err # NoError
            THEN [blob |-> <<>>, err |-> NewCadenceSerializationError(r.err[1])]
            ELSE [blob |-> NewDataBlob(r.data, encodingType), err |-> NoError]

\* thriftrwDecode without the write-back of the decoded events to the target
thriftrwDecode_noWriteBack(data, kind, target) ==
    LET d == thriftrwEncoderDecode(data, ThriftTypeOf(kind))
    IN CASE kind = "Batch" -> [val |-> target, err |-> d.err]
         [] kind = "HistoryEvent" ->
               [val |-> IF d.err = NoError THEN ValueOf(kind, d.payload) ELSE target,
                err |-> d.err]
         [] kind = "Memo" ->
               [val |-> IF d.err = NoError THEN ValueOf(kind, d.payload) ELSE target,
                err |-> NoError]
         [] OTHER -> [val |-> target, err |-> NoError]

\* serializerImpl.thriftrwDecode: the memo branch drops the decoder's error
thriftrwDecode(data, kind, target) ==
    LET d == thriftrwEncoderDecode(data, ThriftTypeOf(kind))
    IN CASE kind = "Batch" ->
               [val |-> ValueOf(kind, d.payload), err |-> d.err]
         [] kind = "HistoryEvent" ->
               [val |-> IF d.err = NoError THEN ValueOf(kind, d.payload) ELSE target,
                err |-> d.err]
         [] kind = "Memo" ->
               [val |-> IF d.err = NoError THEN ValueOf(kind, d.payload) ELSE target,
                err |-> NoError]
         [] OTHER -> [val |-> target, err |-> NoError]

\* deserialize that takes a blob without data for a nil blob
deserialize_emptyAsNil(blob, kind, target) ==
    IF blob = <<>> \/ Len(blob[1].Data) = 0 THEN [val |-> target, err |-> NoError]
    ELSE IF GetEncoding(blob[1]) \notin {EncodingTypeThriftRW, EncodingTypeJSON,
                                         EncodingTypeUnknown, EncodingTypeEmpty}
         THEN [val |-> target, err |-> NewUnknownEncodingTypeError(GetEncoding(blob[1]))]
    ELSE LET r == IF GetEncoding(blob[1]) = EncodingTypeThriftRW
                  THEN thriftrwDecode(blob[1].Data, kind, target)
                  ELSE jsonUnmarshal(blob[1].Data, kind, target)
         IN IF r.err # NoError
            THEN [val |-> r.val,
                  err |-> NewCadenceDeserializationError("DeserializeBatchEvents encoding",
                                                         blob[1].Encoding)]
            ELSE [val |-> r.val, err |-> NoError]

\* serializerImpl.deserialize: blob is <<>> (nil) or <<DataBlob>>
deserialize(blob, kind, target) ==
    IF blob = <<>> THEN [val |-> target, err |-> NoError]
    ELSE IF Len(blob[1].Data) = 0
         THEN [val |-> target,
               err |-> NewCadenceDeserializationError("DeserializeEvent empty data", "")]
    ELSE IF GetEncoding(blob[1]) \notin {EncodingTypeThriftRW, EncodingTypeJSON,
                                         EncodingTypeUnknown, EncodingTypeEmpty}
         THEN [val |-> target, err |-> NewUnknownEncodingTypeError(GetEncoding(blob[1]))]
    ELSE LET r == IF GetEncoding(blob[1]) = EncodingTypeThriftRW
                  THEN thriftrwDecode(blob[1].Data, kind, target)
                  ELSE jsonUnmarshal(blob[1].Data, kind, target)
         IN IF r.err # NoError
            THEN [val |-> r.val,
                  err |-> NewCadenceDeserializationError("DeserializeBatchEvents encoding",
                                                         blob[1].Encoding)]
            ELSE [val |-> r.val, err |-> NoError]

\* The six public operations
SerializeBatchEvents(events, encodingType, marshalErr) ==
    serialize("Batch", events, encodingType, marshalErr)

SerializeEvent(event, encodingType, marshalErr) ==
    serialize("HistoryEvent", event, encodingType, marshalErr)

SerializeVisibilityMemo(memo, encodingType, marshalErr) ==
    serialize("Memo", memo, encodingType, marshalErr)

DeserializeBatchEvents(blob) == deserialize(blob, "Batch", ZeroValue("Batch"))

DeserializeEvent(blob) == deserialize(blob, "HistoryEvent", ZeroValue("HistoryEvent"))

DeserializeVisibilityMemo(blob) == deserialize(blob, "Memo", ZeroValue("Memo"))

----------------------------------------------------------------------------
(* Search index documents (es.* fields of the visibility index) *)

\* nanoseconds in a millisecond
Ms == 1000 * 1000

JSONBytes(kind, payload) == <<"{", kind, payload>>
ThriftBytes(typeName, payload) == <<"Y", typeName, payload>>
Garbage == <<"#", "", <<>>>>
CorruptThrift == <<"Y", "", <<>>>>

\* HasCloseStatus: the document has the CloseStatus field (exists query).
\* SourceOK: the _source of the hit unmarshals into a visibilityRecord.
Document(id, wid, wtype, start, exec, close, closed, cs, memo, enc, ok) ==
    [DocID |-> id, DomainID |-> "D", WorkflowID |-> wid, RunID |-> id,
     WorkflowType |-> wtype, StartTime |-> start, ExecutionTime |-> exec,
     CloseTime |-> close, HasCloseStatus |-> closed, CloseStatus |-> cs,
     HistoryLength |-> IF closed THEN 7 ELSE 0,
     Memo |-> memo, Encoding |-> enc, SourceOK |-> ok]

Universe ==
    { Document(1, "W", "T", 0,      0,      0,      FALSE, 0, JSONBytes("Memo", <<1>>), "json", TRUE),
      Document(2, "W", "T", 2 * Ms, 0,      0,      FALSE, 0, Garbage, "json", TRUE),
      Document(3, "V", "T", 2 * Ms, 2 * Ms, 0,      FALSE, 0, CorruptThrift, "thriftrw", TRUE),
      Document(4, "W", "U", 1 * Ms, 1 * Ms, 0,      FALSE, 0, <<>>, "", TRUE),
      Document(5, "W", "T", 1 * Ms, 0,      3 * Ms, TRUE,  0, ThriftBytes("Memo", <<2>>), "thriftrw", TRUE),
      Document(6, "W", "T", 0,      0,      3 * Ms, TRUE,  1, Garbage, "unknown", FALSE),
      Document(7, "V", "T", 0,      0,      0,      TRUE,  0, JSONBytes("Memo", <<1>>), "json", TRUE) }

----------------------------------------------------------------------------
(* Search index visibility store:                                          *)
(* common/persistence/elasticsearch/elasticsearchVisibility.go             *)

oneMilliSecondInNano == 1000

OpenListOps == {"ListOpenWorkflowExecutions", "ListOpenWorkflowExecutionsByType",
                "ListOpenWorkflowExecutionsByWorkflowID"}
ClosedListOps == {"ListClosedWorkflowExecutions", "ListClosedWorkflowExecutionsByType",
                  "ListClosedWorkflowExecutionsByWorkflowID",
                  "ListClosedWorkflowExecutionsByStatus"}
ListOps == OpenListOps \cup ClosedListOps

isOpenOf(o) == o \in OpenListOps

\* The match query each list operation adds (<<>> is the nil matchQuery)
matchQueryOf(o, req) ==
    CASE o \in {"ListOpenWorkflowExecutionsByType", "ListClosedWorkflowExecutionsByType"} ->
            <<"WorkflowType", req.WorkflowTypeName>>
      [] o \in {"ListOpenWorkflowExecutionsByWorkflowID",
                "ListClosedWorkflowExecutionsByWorkflowID"} ->
            <<"WorkflowID", req.WorkflowID>>
      [] o = "ListClosedWorkflowExecutionsByStatus" -> <<"CloseStatus", req.Status>>
      [] OTHER -> <<>>

\* esVisibilityPageToken and its JSON codec: the three fields in order
ZeroToken == [From |-> 0, SortTime |-> 0, TieBreaker |-> 0]

serializePageToken(token) == <<token.From, token.SortTime, token.TieBreaker>>

deserializePageToken(data) ==
    IF Len(data) = 3
    THEN [token |-> [From |-> data[1], SortTime |-> data[2], TieBreaker |-> data[3]],
          err |-> NoError]
    ELSE [token |-> ZeroToken, err |-> <<"BadRequestError", "unable to deserialize page token">>]

\* getNextPageToken that starts from the zero token when the token does not
\* decode
getNextPageToken_ignoreErr(token) ==
    IF Len(token) > 0
    THEN [token |-> deserializePageToken(token).token, err |-> NoError]
    ELSE [token |-> ZeroToken, err |-> NoError]

getNextPageToken(token) ==
    IF Len(token) > 0 THEN deserializePageToken(token)
    ELSE [token |-> ZeroToken, err |-> NoError]

\* getSearchResult without the clause on the existence of close_status
SearchParameters_noExistsClause(req, token, matchQuery, isOpen) ==
    [Domain |-> req.DomainUUID,
     RangeField |-> IF isOpen THEN "StartTime" ELSE "CloseTime",
     Gte |-> req.EarliestStartTime - oneMilliSecondInNano,
     Lte |-> req.LatestStartTime + oneMilliSecondInNano,
     Match |-> matchQuery,
     MustExistCloseStatus |-> FALSE,
     From |-> token.From,
     PageSize |-> req.PageSize,
     SortField |-> IF isOpen THEN "StartTime" ELSE "CloseTime",
     SearchAfter |-> IF token.SortTime # 0 /\ token.TieBreaker # 0
                     THEN <<token.SortTime, token.TieBreaker>> ELSE <<>>]

\* The search parameters getSearchResult builds
SearchParameters(req, token, matchQuery, isOpen) ==
    [Domain |-> req.DomainUUID,
     RangeField |-> IF isOpen THEN "StartTime" ELSE "CloseTime",
     Gte |-> req.EarliestStartTime - oneMilliSecondInNano,
     Lte |-> req.LatestStartTime + oneMilliSecondInNano,
     Match |-> matchQuery,
     MustExistCloseStatus |-> ~isOpen,
     From |-> token.From,
     PageSize |-> req.PageSize,
     SortField |-> IF isOpen THEN "StartTime" ELSE "CloseTime",
     SearchAfter |-> IF token.SortTime # 0 /\ token.TieBreaker # 0
                     THEN <<token.SortTime, token.TieBreaker>> ELSE <<>>]

\* The index: which documents a query matches, and in what order
FieldTime(d, field) == IF field = "StartTime" THEN d.StartTime ELSE d.CloseTime

MatchesMatch(d, m) ==
    \/ m = <<>>
    \/ m[1] = "WorkflowType" /\ d.WorkflowType = m[2]
    \/ m[1] = "WorkflowID" /\ d.WorkflowID = m[2]
    \/ m[1] = "CloseStatus" /\ d.HasCloseStatus /\ d.CloseStatus = m[2]
    \/ m[1] = "RunID" /\ d.RunID = m[2]

Matches(d, params) ==
    /\ d.DomainID = params.Domain
    /\ FieldTime(d, params.RangeField) >= params.Gte
    /\ FieldTime(d, params.RangeField) <= params.Lte
    /\ MatchesMatch(d, params.Match)
    /\ d.HasCloseStatus = params.MustExistCloseStatus

\* a sorts before b under (sort field DESC, run id DESC)
SortsBefore(a, b, field) ==
    \/ FieldTime(a, field) > FieldTime(b, field)
    \/ FieldTime(a, field) = FieldTime(b, field) /\ a.RunID > b.RunID

\* d comes after the search_after key
After(d, key, field) ==
    \/ FieldTime(d, field) < key[1]
    \/ FieldTime(d, field) = key[1] /\ d.RunID < key[2]

Sorted(S, field) ==
    [i \in 1..Cardinality(S) |->
        CHOOSE d \in S : Cardinality({e \in S : SortsBefore(e, d, field)}) = i - 1]

\* esClient.Search: From+PageSize above the result window is refused; the
\* total counts every match of the query, search_after or not.
esClientSearch(docs, params) ==
    LET matching == {d \in docs : Matches(d, params)}
        rest == IF params.SearchAfter = <<>> THEN matching
                ELSE {d \in matching : After(d, params.SearchAfter, params.SortField)}
        sorted == Sorted(rest, params.SortField)
    IN IF params.From + params.PageSize > ESIndexMaxResultWindow
       THEN [err |-> <<"Result window is too large">>, Hits |-> <<>>, TotalHits |-> 0]
       ELSE [err |-> NoError,
             Hits |-> SubSeq(sorted, params.From + 1,
                             Min(params.From + params.PageSize, Len(sorted))),
             TotalHits |-> Cardinality(matching)]

\* Generated getters of WorkflowExecutionInfo: safe on nil and on unset fields
GetStartTime(rec) == IF rec = <<>> \/ rec[1].StartTime = <<>> THEN 0 ELSE rec[1].StartTime[1]
GetCloseTime(rec) == IF rec = <<>> \/ rec[1].CloseTime = <<>> THEN 0 ELSE rec[1].CloseTime[1]
GetRunId(rec) == IF rec = <<>> THEN 0 ELSE rec[1].Execution.RunId

\* convertSearchResultToVisibilityRecord: the record (a pointer, <<>> for
\* nil) and the entries it logs
memoOf(hit) == DeserializeVisibilityMemo(NewDataBlob(hit.Memo, hit.Encoding))

\* convertSearchResultToVisibilityRecord that returns the stored execution
\* time as it is
convertSearchResultToVisibilityRecord_noDefault(hit, isOpen) ==
    IF ~hit.SourceOK THEN <<>>
    ELSE LET base == [Execution |-> [WorkflowId |-> hit.WorkflowID, RunId |-> hit.RunID],
                      Type |-> hit.WorkflowType,
                      StartTime |-> <<hit.StartTime>>,
                      ExecutionTime |-> <<hit.ExecutionTime>>,
                      Memo |-> <<memoOf(hit).val>>]
         IN IF isOpen
            THEN <<base @@
                   [CloseTime |-> <<>>, CloseStatus |-> <<>>, HistoryLength |-> <<>>]>>
            ELSE <<base @@
                   [CloseTime |-> <<hit.CloseTime>>, CloseStatus |-> <<hit.CloseStatus>>,
                    HistoryLength |-> <<hit.HistoryLength>>]>>

convertSearchResultToVisibilityRecord(hit, isOpen) ==
    IF ~hit.SourceOK THEN <<>>
    ELSE LET executionTime == IF hit.ExecutionTime = 0 THEN hit.StartTime
                              ELSE hit.ExecutionTime
             base == [Execution |-> [WorkflowId |-> hit.WorkflowID, RunId |-> hit.RunID],
                      Type |-> hit.WorkflowType,
                      StartTime |-> <<hit.StartTime>>,
                      ExecutionTime |-> <<executionTime>>,
                      Memo |-> <<memoOf(hit).val>>]
         IN IF isOpen
            THEN <<base @@
                   [CloseTime |-> <<>>, CloseStatus |-> <<>>, HistoryLength |-> <<>>]>>
            ELSE <<base @@
                   [CloseTime |-> <<hit.CloseTime>>, CloseStatus |-> <<hit.CloseStatus>>,
                    HistoryLength |-> <<hit.HistoryLength>>]>>

convertLog(hit) ==
    IF ~hit.SourceOK
    THEN {[msg |-> "unable to unmarshal search hit source", docID |-> hit.DocID]}
    ELSE IF memoOf(hit).err # NoError
         THEN {[msg |-> "unable to decode memo field", docID |-> hit.DocID]}
         ELSE {}

\* nextPageTokenOf with the offset counted from the start of this page only
nextPageTokenOf_fromOfPage(executions, totalHits, token, isOpen) ==
    IF totalHits <= ESIndexMaxResultWindow
    THEN serializePageToken([From |-> Len(executions), SortTime |-> 0, TieBreaker |-> 0])
    ELSE LET lastExecution == executions[Len(executions)]
             sortTime == IF isOpen THEN GetStartTime(lastExecution)
                         ELSE GetCloseTime(lastExecution)
         IN serializePageToken([From |-> 0, SortTime |-> sortTime,
                                TieBreaker |-> GetRunId(lastExecution)])

\* getListWorkflowExecutionsResponse: the token of the next page
nextPageTokenOf(executions, totalHits, token, isOpen) ==
    IF totalHits <= ESIndexMaxResultWindow
    THEN serializePageToken([From |-> token.From + Len(executions),
                             SortTime |-> 0, TieBreaker |-> 0])
    ELSE LET lastExecution == executions[Len(executions)]
             sortTime == IF isOpen THEN GetStartTime(lastExecution)
                         ELSE GetCloseTime(lastExecution)
         IN serializePageToken([From |-> 0, SortTime |-> sortTime,
                                TieBreaker |-> GetRunId(lastExecution)])

\* getListWorkflowExecutionsResponse with a token for every non-empty page
getListWorkflowExecutionsResponse_anyHits(hits, totalHits, token, isOpen, pageSize) ==
    LET executions == [i \in 1..Len(hits) |->
                          convertSearchResultToVisibilityRecord(hits[i], isOpen)]
    IN [Executions |-> executions,
        NextPageToken |-> IF Len(hits) > 0
                          THEN nextPageTokenOf(executions, totalHits, token, isOpen)
                          ELSE <<>>]

\* getListWorkflowExecutionsResponse: the records and the token
getListWorkflowExecutionsResponse(hits, totalHits, token, isOpen, pageSize) ==
    LET executions == [i \in 1..Len(hits) |->
                          convertSearchResultToVisibilityRecord(hits[i], isOpen)]
    IN [Executions |-> executions,
        NextPageToken |-> IF Len(hits) = pageSize
                          THEN nextPageTokenOf(executions, totalHits, token, isOpen)
                          ELSE <<>>]

\* One list operation, from the token check to the response
ListCall(o, req, docs) ==
    LET t == getNextPageToken(req.NextPageToken)
        isOpen == isOpenOf(o)
        params == SearchParameters(req, t.token, matchQueryOf(o, req), isOpen)
        res == esClientSearch(docs, params)
    IN IF t.err # NoError
       THEN [err |-> t.err, resp |-> <<>>, searched |-> FALSE, token |-> t.token,
             params |-> params, hits |-> <<>>, totalHits |-> 0, logs |-> {}]
       ELSE IF res.err # NoError
       THEN [err |-> <<"InternalServiceError", o>>, resp |-> <<>>, searched |-> TRUE,
             token |-> t.token, params |-> params, hits |-> <<>>, totalHits |-> 0,
             logs |-> {}]
       ELSE [err |-> NoError,
             resp |-> <<getListWorkflowExecutionsResponse(res.Hits, res.TotalHits, t.token,
                                                          isOpen, req.PageSize)>>,
             searched |-> TRUE, token |-> t.token, params |-> params, hits |-> res.Hits,
             totalHits |-> res.TotalHits,
             logs |-> UNION {convertLog(res.Hits[i]) : i \in 1..Len(res.Hits)}]

\* RecordWorkflowExecutionStarted and RecordWorkflowExecutionClosed: the
\* error returned and whether the index was contacted
errOperationNotSupported == <<"operation not support">>

\* Record* that forwards the record to the index and reports success
RecordWorkflowExecution_indexes(o, req) ==
    [called |-> TRUE, o |-> o, req |-> req, err |-> NoError, searched |-> TRUE]

RecordWorkflowExecution(o, req) ==
    [called |-> TRUE, o |-> o, req |-> req, err |-> errOperationNotSupported,
     searched |-> FALSE]

\* GetClosedWorkflowExecution: the index returns the hits in an order of its
\* own (the query has no sorter); first is the hit it puts first.
\* The point lookup's query with the run_id clause whatever the request
GetClosedParams_alwaysRunID(req) ==
    [Domain |-> req.DomainUUID, WorkflowID |-> req.WorkflowID, RunID |-> <<req.RunID>>]

GetClosedParams(req) ==
    [Domain |-> req.DomainUUID, WorkflowID |-> req.WorkflowID,
     RunID |-> IF req.RunID # 0 THEN <<req.RunID>> ELSE <<>>]

GetClosedHits(docs, params) ==
    {d \in docs : /\ d.DomainID = params.Domain
                  /\ d.HasCloseStatus
                  /\ d.WorkflowID = params.WorkflowID
                  /\ (params.RunID = <<>> \/ d.RunID = params.RunID[1])}

GetClosedCall(req, docs, first) ==
    LET hits == GetClosedHits(docs, GetClosedParams(req))
    IN IF hits = {}
       THEN [called |-> TRUE, req |-> req, err |-> NoError, hit |-> <<>>,
             Execution |-> <<>>, logs |-> {}]
       ELSE [called |-> TRUE, req |-> req, err |-> NoError, hit |-> <<first>>,
             Execution |-> convertSearchResultToVisibilityRecord(first, FALSE),
             logs |-> convertLog(first)]

----------------------------------------------------------------------------
(* The caller of the search store and the index around it *)

TimeRanges == {<<0, 4 * Ms>>, <<1 * Ms, 2 * Ms + 500000>>}

ListRequest(range, pageSize, token) ==
    [DomainUUID |-> "D", EarliestStartTime |-> range[1], LatestStartTime |-> range[2],
     PageSize |-> pageSize, NextPageToken |-> token,
     WorkflowTypeName |-> "T", WorkflowID |-> "W", Status |-> 0]

NoCall == [called |-> FALSE]

ModeOf(totalHits) == IF totalHits <= ESIndexMaxResultWindow THEN "offset" ELSE "searchAfter"

\* What the caller saw of a call, with what it saw of the call before it
\* (prev): the mode of the response the token came from, the last hit of the
\* previous page, whether the total has crossed the window in the session.
Record(o, req, r, prev) ==
    [called |-> TRUE, o |-> o, req |-> req,
     tokenMode |-> IF prev.called THEN ModeOf(prev.totalHits) ELSE "none",
     prevLast |-> IF prev.called /\ Len(prev.hits) > 0
                  THEN <<prev.hits[Len(prev.hits)]>> ELSE <<>>,
     crossed |-> /\ prev.called
                 /\ \/ prev.crossed
                    \/ r.err = NoError /\ ModeOf(prev.totalHits) # ModeOf(r.totalHits)] @@ r

\* The caller's bookkeeping after a list call returned r
Received(o, req, r, prev, before) ==
    /\ op' = o
    /\ request' = [req EXCEPT !.NextPageToken = <<>>]
    /\ last' = Record(o, req, r, prev)
    /\ logged' = r.logs
    /\ getResp' = NoCall
    /\ recorded' = NoCall
    /\ IF r.err # NoError
       THEN /\ status' = "failed"
            /\ nextToken' = <<>>
            /\ got' = before
       ELSE /\ status' = IF r.resp[1].NextPageToken = <<>> THEN "done" ELSE "paging"
            /\ nextToken' = r.resp[1].NextPageToken
            /\ got' = before \o r.resp[1].Executions

\* First call of a paging session: empty token
StartList(o, range, pageSize) ==
    /\ status = "idle"
    /\ LET req == ListRequest(range, pageSize, <<>>)
       IN Received(o, req, ListCall(o, req, index), NoCall, <<>>)
    /\ calls' = 1
    /\ changes' = 0
    /\ UNCHANGED <<index, serVars, stackVars, concVars, cassVars, metaVars>>

\* The same call again with the token of the previous response
ContinueList ==
    /\ status = "paging"
    /\ calls < MaxCalls
    /\ LET req == [request EXCEPT !.NextPageToken = nextToken]
       IN Received(op, req, ListCall(op, req, index), last, got)
    /\ calls' = calls + 1
    /\ UNCHANGED <<index, changes, serVars, stackVars, concVars, cassVars, metaVars>>

\* The caller drops a finished or abandoned session
EndSession ==
    /\ status # "idle"
    /\ status' = "idle"
    /\ nextToken' = <<>>
    /\ got' = <<>>
    /\ calls' = 0
    /\ changes' = 0
    /\ last' = NoCall
    /\ getResp' = NoCall
    /\ recorded' = NoCall
    /\ logged' = {}
    /\ op' = "ListOpenWorkflowExecutions"
    /\ request' = ListRequest(<<0, 4 * Ms>>, 1, <<>>)
    /\ UNCHANGED <<index, serVars, stackVars, concVars, cassVars, metaVars>>

GetClosedWorkflowExecution(wid, rid) ==
    /\ status = "idle"
    /\ LET req == [DomainUUID |-> "D", WorkflowID |-> wid, RunID |-> rid]
           hits == GetClosedHits(index, GetClosedParams(req))
       IN \E first \in (IF hits = {} THEN Universe ELSE hits) :
            LET r == GetClosedCall(req, index, first)
            IN getResp' = r /\ logged' = r.logs
    /\ recorded' = NoCall
    /\ UNCHANGED <<index, status, request, op, nextToken, got, calls, changes, last,
                   ser, stack, bucket, quota, counters, lastReq, svc, concVars, cassVars, metaVars>>

\* A caller passes a token no response has handed out
MalformedTokens == {<<"#">>, <<0, 0>>}

ListWithToken(o, pageSize, token) ==
    /\ status = "idle"
    /\ LET req == ListRequest(<<0, 4 * Ms>>, pageSize, token)
       IN Received(o, req, ListCall(o, req, index), NoCall, <<>>)
    /\ calls' = 1
    /\ changes' = 0
    /\ UNCHANGED <<index, serVars, stackVars, concVars, cassVars, metaVars>>

\* The history service reports a started or a closed execution
RecordRequests == {[DomainUUID |-> "D", WorkflowID |-> "W", RunID |-> r] : r \in {1, 5}}

RecordWorkflowExecutionStarted(req) ==
    /\ status = "idle"
    /\ recorded' = RecordWorkflowExecution("RecordWorkflowExecutionStarted", req)
    /\ getResp' = NoCall
    /\ logged' = {}
    /\ UNCHANGED <<index, status, request, op, nextToken, got, calls, changes, last,
                   ser, stack, bucket, quota, counters, lastReq, svc, concVars, cassVars, metaVars>>

RecordWorkflowExecutionClosed(req) ==
    /\ status = "idle"
    /\ recorded' = RecordWorkflowExecution("RecordWorkflowExecutionClosed", req)
    /\ getResp' = NoCall
    /\ logged' = {}
    /\ UNCHANGED <<index, status, request, op, nextToken, got, calls, changes, last,
                   ser, stack, bucket, quota, counters, lastReq, svc, concVars, cassVars, metaVars>>

\* The visibility processor indexes a document; retention removes one
IndexDocument(d) ==
    /\ d \notin index
    /\ status \in {"idle", "paging"}
    /\ status = "paging" => changes < MaxChanges
    /\ index' = index \cup {d}
    /\ changes' = IF status = "paging" THEN changes + 1 ELSE changes
    /\ UNCHANGED <<status, request, op, nextToken, got, calls, last, getResp, logged,
                   recorded, ser, stack, bucket, quota, counters, lastReq, svc, concVars, cassVars, metaVars>>

ExpireDocument(d) ==
    /\ d \in index
    /\ status \in {"idle", "paging"}
    /\ status = "paging" => changes < MaxChanges
    /\ index' = index \ {d}
    /\ changes' = IF status = "paging" THEN changes + 1 ELSE changes
    /\ UNCHANGED <<status, request, op, nextToken, got, calls, last, getResp, logged,
                   recorded, ser, stack, bucket, quota, counters, lastReq, svc, concVars, cassVars, metaVars>>

\* The caller asks the search store to delete an execution's record
DeleteRequests == {[DomainID |-> "D", RunID |-> r] : r \in {1, 5}}

\* A delete that removes the execution's documents from the index
esDeleteWorkflowExecution_deleteByQuery(req, docs) ==
    [err |-> NoError, queries |-> 1,
     index |-> {d \in docs : ~(d.DomainID = req.DomainID /\ d.RunID = req.RunID)}]

\* DeleteWorkflowExecution of the search store: return nil
esDeleteWorkflowExecution(req, docs) ==
    [err |-> NoError, queries |-> 0, index |-> docs]

DeleteWorkflowExecution(req) ==
    /\ status = "idle"
    /\ LET r == esDeleteWorkflowExecution(req, index)
       IN /\ index' = r.index
          /\ deleted' = [called |-> TRUE, store |-> "es", req |-> req, err |-> r.err,
                         queries |-> r.queries, wrapped |-> <<>>]
    /\ UNCHANGED <<status, request, op, nextToken, got, calls, changes, last, getResp, logged,
                   recorded, serVars, stackVars, concVars, metaVars,
                   closedCount, cassSession, cassLast, passed>>

\* The documents the index holds before any listing starts
SeedDocument(d) ==
    /\ status = "idle"
    /\ IndexDocument(d)

\* A caller that passes every returned token back, however many calls it takes
ContinueScan ==
    /\ status = "paging"
    /\ \E r \in {ListCall(op, [request EXCEPT !.NextPageToken = nextToken], index)} :
          Received(op, [request EXCEPT !.NextPageToken = nextToken], r, last, <<>>)
    /\ UNCHANGED <<index, calls, changes, serVars, stackVars, concVars, cassVars, metaVars>>


----------------------------------------------------------------------------
(* Callers of the serializer *)

Encodings == {EncodingTypeJSON, EncodingTypeThriftRW, EncodingTypeEmpty,
              EncodingTypeUnknown, EncodingTypeGob, "foo"}

Events == {[EventId |-> i] : i \in 1..MaxEventId}
Batches == UNION {[1..n -> Events] : n \in 0..MaxBatch}
Memos == {[Fields |-> <<>>], [Fields |-> <<1>>], [Fields |-> <<1, 2>>]}

\* Blobs a store can hand to the deserializer
StoredData == {<<>>, Garbage, CorruptThrift, <<"null", "", <<>>>>,
               JSONBytes("HistoryEvent", <<1>>), JSONBytes("Memo", <<1>>),
               <<"[", "HistoryEvent", <<1, 2>>>>,
               ThriftBytes("HistoryEvent", <<2>>), ThriftBytes("Memo", <<2>>),
               ThriftBytes("History", <<2, 1>>)}
StoredBlobs == {<<>>} \cup
               {<<[Data |-> d, Encoding |-> e]>> :
                   d \in StoredData, e \in Encodings \ {"foo"}}

Serialized(kind, input, encodingType, marshalErr, res) ==
    [phase |-> "serialized", kind |-> kind, input |-> input, enc |-> encodingType,
     marshalErr |-> marshalErr, res |-> res]

CallSerializeEvent(event, encodingType, marshalErr) ==
    /\ ser' = Serialized("HistoryEvent", <<event>>, encodingType, marshalErr,
                         SerializeEvent(<<event>>, encodingType, marshalErr))
    /\ UNCHANGED <<esVars, stackVars, concVars, cassVars, metaVars>>

CallSerializeBatchEvents(events, encodingType, marshalErr) ==
    /\ ser' = Serialized("Batch", <<events>>, encodingType, marshalErr,
                         SerializeBatchEvents(<<events>>, encodingType, marshalErr))
    /\ UNCHANGED <<esVars, stackVars, concVars, cassVars, metaVars>>

CallSerializeVisibilityMemo(memo, encodingType, marshalErr) ==
    /\ ser' = Serialized("Memo", <<memo>>, encodingType, marshalErr,
                         SerializeVisibilityMemo(<<memo>>, encodingType, marshalErr))
    /\ UNCHANGED <<esVars, stackVars, concVars, cassVars, metaVars>>

SerializeOf(kind, input, encodingType, marshalErr) ==
    CASE kind = "HistoryEvent" -> SerializeEvent(input, encodingType, marshalErr)
      [] kind = "Batch" -> SerializeBatchEvents(input, encodingType, marshalErr)
      [] kind = "Memo" -> SerializeVisibilityMemo(input, encodingType, marshalErr)

\* A serialize operation called with a nil pointer or a nil slice
CallSerializeNil(kind, encodingType) ==
    /\ ser' = [phase |-> "serializedNil", kind |-> kind, input |-> <<>>,
               enc |-> encodingType, marshalErr |-> FALSE,
               res |-> SerializeOf(kind, <<>>, encodingType, FALSE)]
    /\ UNCHANGED <<esVars, stackVars, concVars, cassVars, metaVars>>

DeserializeOf(kind, blob) ==
    CASE kind = "HistoryEvent" -> DeserializeEvent(blob)
      [] kind = "Batch" -> DeserializeBatchEvents(blob)
      [] kind = "Memo" -> DeserializeVisibilityMemo(blob)

\* The caller reads back the blob it has just written
ReadBack ==
    /\ ser.phase = "serialized"
    /\ ser.res.err = NoError
    /\ ser' = [phase |-> "roundtrip", kind |-> ser.kind, input |-> ser.input,
               enc |-> ser.enc, blob |-> ser.res.blob,
               out |-> DeserializeOf(ser.kind, ser.res.blob)]
    /\ UNCHANGED <<esVars, stackVars, concVars, cassVars, metaVars>>

CallDeserializeEvent(blob) ==
    /\ ser' = [phase |-> "read", kind |-> "HistoryEvent", blob |-> blob,
               out |-> DeserializeEvent(blob)]
    /\ UNCHANGED <<esVars, stackVars, concVars, cassVars, metaVars>>

CallDeserializeBatchEvents(blob) ==
    /\ ser' = [phase |-> "read", kind |-> "Batch", blob |-> blob,
               out |-> DeserializeBatchEvents(blob)]
    /\ UNCHANGED <<esVars, stackVars, concVars, cassVars, metaVars>>

CallDeserializeVisibilityMemo(blob) ==
    /\ ser' = [phase |-> "read", kind |-> "Memo", blob |-> blob,
               out |-> DeserializeVisibilityMemo(blob)]
    /\ UNCHANGED <<esVars, stackVars, concVars, cassVars, metaVars>>

----------------------------------------------------------------------------
(* The visibility stack of the frontend service: service/frontend/service.go *)

\* Service.Start wraps the search store: each wrapper goes around what is
\* there, so the sequence, outermost first, grows at its head.
Wrap(wrapper, inner) == <<wrapper>> \o inner

ServiceStartStack(enableVisibilityToKafka) ==
    IF enableVisibilityToKafka
    THEN Wrap("metrics", Wrap("sampling", Wrap("rateLimit", <<>>)))
    ELSE <<>>

\* One request through the wrappers from position i inwards.  st carries the
\* bucket, the quota, the counters, the wrappers passed and who rejected.
RECURSIVE Through(_, _, _, _)
Through(stk, i, isList, st) ==
    IF i > Len(stk)
    THEN [st EXCEPT !.backendCalls = @ + 1]
    ELSE CASE stk[i] = "metrics" ->
                Through(stk, i + 1, isList,
                        [st EXCEPT !.metricsRequests = @ + 1,
                                   !.path = Append(@, "metrics")])
           [] stk[i] = "rateLimit" ->
                IF st.bucket = 0
                THEN [st EXCEPT !.rejectedBy = "rateLimit", !.path = Append(@, "rateLimit")]
                ELSE Through(stk, i + 1, isList,
                             [st EXCEPT !.bucket = @ - 1, !.path = Append(@, "rateLimit")])
           [] stk[i] = "sampling" ->
                IF isList /\ st.quota = 0
                THEN [st EXCEPT !.rejectedBy = "sampling", !.path = Append(@, "sampling")]
                ELSE Through(stk, i + 1, isList,
                             [st EXCEPT !.quota = IF isList THEN @ - 1 ELSE @,
                                        !.path = Append(@, "sampling")])

ServiceStart(enableVisibilityToKafka) ==
    /\ stack = <<>>
    /\ stack' = ServiceStartStack(enableVisibilityToKafka)
    /\ UNCHANGED <<esVars, serVars, bucket, quota, counters, lastReq, svc, concVars, cassVars, metaVars>>

VisibilityRequest(isList) ==
    /\ stack # <<>>
    /\ counters.metricsRequests < MaxRequests
    /\ LET st == Through(stack, 1, isList,
                         [bucket |-> bucket, quota |-> quota,
                          metricsRequests |-> counters.metricsRequests,
                          backendCalls |-> counters.backendCalls,
                          path |-> <<>>, rejectedBy |-> ""])
       IN /\ bucket' = st.bucket
          /\ quota' = st.quota
          /\ counters' = [metricsRequests |-> st.metricsRequests,
                          backendCalls |-> st.backendCalls]
          /\ lastReq' = [called |-> TRUE, isList |-> isList, path |-> st.path,
                         rejectedBy |-> st.rejectedBy]
    /\ UNCHANGED <<esVars, serVars, concVars, cassVars, metaVars, svc, stack>>

\* A second passes: the bucket and the per-domain quota are refilled
Refill ==
    /\ stack # <<>>
    /\ bucket < BucketSize \/ quota < 1
    /\ bucket' = BucketSize
    /\ quota' = 1
    /\ UNCHANGED <<esVars, serVars, concVars, cassVars, metaVars, svc, stack, counters, lastReq>>

----------------------------------------------------------------------------
(* The domain_metadata table of the SQL store: one row, one column *)

Clients == 1..NumClients

\* getDomainMetadataQry: SELECT notification_version FROM domain_metadata
getDomainMetadataQry(stored) == [NotificationVersion |-> stored]

\* An UPDATE that sets the column whatever the row holds
updateDomainMetadataQry_unconditional(stored, row) ==
    [stored |-> row.NotificationVersion + 1, rowsAffected |-> 1]

\* updateDomainMetadataQry: UPDATE domain_metadata SET notification_version =
\* :notification_version + 1 WHERE notification_version = :notification_version.
\* One statement: the comparison and the write are one step of the database.
updateDomainMetadataQry(stored, row) ==
    IF stored = row.NotificationVersion
    THEN [stored |-> row.NotificationVersion + 1, rowsAffected |-> 1]
    ELSE [stored |-> stored, rowsAffected |-> 0]

\* SelectFromDomainMetadata: the client gets the row as it is now
SelectFromDomainMetadata(c) ==
    /\ updaters[c].pc = "idle"
    /\ updaters' = [updaters EXCEPT ![c] =
                       [pc |-> "read", row |-> getDomainMetadataQry(notificationVersion)]]
    /\ UNCHANGED <<esVars, serVars, stackVars, concVars, cassVars, notificationVersion, applied>>

\* UpdateDomainMetadata(row) with the row the client holds, however old
UpdateDomainMetadata(c) ==
    /\ updaters[c].pc = "read"
    /\ updaters[c].row.NotificationVersion < MaxVersion
    /\ LET row == updaters[c].row
           r == updateDomainMetadataQry(notificationVersion, row)
       IN /\ notificationVersion' = r.stored
          /\ updaters' = [updaters EXCEPT ![c] =
                             [pc |-> "updated", row |-> row, rowsAffected |-> r.rowsAffected]]
          /\ applied' = IF r.rowsAffected = 1
                        THEN applied \cup {[client |-> c, version |-> row.NotificationVersion]}
                        ELSE applied
    /\ UNCHANGED <<esVars, serVars, stackVars, concVars, cassVars>>

\* The client has looked at the result
UpdateDone(c) ==
    /\ updaters[c].pc = "updated"
    /\ updaters' = [updaters EXCEPT ![c] = [pc |-> "idle"]]
    /\ UNCHANGED <<esVars, serVars, stackVars, concVars, cassVars, notificationVersion, applied>>

----------------------------------------------------------------------------
(* Life cycle of the frontend service: Start and Stop *)

\* The positions of Start, in order: the statement it is about to run.
\* visibilityFromES is run only when EnableVisibilityToKafka is set.
StartPositions ==
    <<"base", "metadata", "visibilityFromDB", "visibilityFromES", "visibility", "history",
      "historyV2", "kafka", "handlers", "waiting">>

PositionAfter(pc, enable) ==
    LET i == CHOOSE k \in 1..Len(StartPositions) : StartPositions[k] = pc
        n == StartPositions[i + 1]
    IN IF n = "visibilityFromES" /\ ~enable THEN StartPositions[i + 2] ELSE n

\* Start is invoked on the service NewService returned
Start(enable) ==
    /\ svc.pc = "new"
    /\ svc' = [svc EXCEPT !.pc = "base", !.enable = enable]
    /\ UNCHANGED <<esVars, serVars, concVars, cassVars, metaVars, stack, bucket, quota,
                   counters, lastReq>>

\* Start runs its next statement, up to the receive on stopC
StartStep ==
    /\ svc.pc \notin {"new", "waiting", "received", "returned"}
    /\ svc' = [svc EXCEPT !.pc = PositionAfter(svc.pc, svc.enable)]
    /\ UNCHANGED <<esVars, serVars, concVars, cassVars, metaVars, stack, bucket, quota,
                   counters, lastReq>>

\* Stop: the select sends on the unbuffered stopC when Start is at its
\* receive, and takes the default branch otherwise; then it logs and returns
Stop ==
    /\ svc.stopCalls < MaxStops
    /\ svc' = [svc EXCEPT !.stopCalls = @ + 1,
                          !.afterStart = @ \/ svc.pc # "new",
                          !.pc = IF svc.pc = "waiting" THEN "received" ELSE @,
                          !.dropped = IF svc.pc = "waiting" THEN @ ELSE @ + 1]
    /\ UNCHANGED <<esVars, serVars, concVars, cassVars, metaVars, stack, bucket, quota,
                   counters, lastReq>>

\* Start, past the receive, calls base.Stop and returns
StartReturn ==
    /\ svc.pc = "received"
    /\ svc' = [svc EXCEPT !.pc = "returned"]
    /\ UNCHANGED <<esVars, serVars, concVars, cassVars, metaVars, stack, bucket, quota,
                   counters, lastReq>>

----------------------------------------------------------------------------
(* Columnar visibility store V2:                                           *)
(* common/persistence/cassandra/cassandraVisibilityPersistenceV2.go        *)

\* persistence.UnixNanoToDBTimestamp: the store keeps milliseconds
UnixNanoToDBTimestamp(timestamp) == timestamp \div Ms

\* Row i of closed_executions_v2 for the domain; times are DB timestamps
ClosedRow(i) ==
    [WorkflowID |-> IF i % 3 = 0 THEN "V" ELSE "W", RunID |-> i,
     StartTime |-> i - 1, ExecutionTime |-> IF i % 2 = 0 THEN 0 ELSE i - 1,
     CloseTime |-> i, WorkflowTypeName |-> IF i % 2 = 0 THEN "U" ELSE "T",
     Status |-> IF i % 5 = 0 THEN 1 ELSE 0, HistoryLength |-> 7]

\* The WHERE clause of the four query templates
V2Where(o, req, row) ==
    /\ row.CloseTime >= UnixNanoToDBTimestamp(req.EarliestStartTime)
    /\ row.CloseTime <= UnixNanoToDBTimestamp(req.LatestStartTime)
    /\ CASE o = "ListClosedWorkflowExecutionsByType" ->
                row.WorkflowTypeName = req.WorkflowTypeName
         [] o = "ListClosedWorkflowExecutionsByWorkflowID" -> row.WorkflowID = req.WorkflowID
         [] o = "ListClosedWorkflowExecutionsByStatus" -> row.Status = req.Status
         [] OTHER -> TRUE

\* The rows a query selects, in the clustering order of the table
\* (close_time descending)
V2Scan(n, o, req) ==
    LET ids == {i \in 1..n : V2Where(o, req, ClosedRow(i))}
    IN [k \in 1..Cardinality(ids) |->
           ClosedRow(CHOOSE i \in ids : Cardinality({j \in ids : j > i}) = k - 1)]

\* gocql paging state: a marker and the key of the last row delivered, <<>>
\* at the end
PageStateAt(row) == <<"state", row.RunID>>

IsPageState(state) == Len(state) = 0 \/ (Len(state) = 2 /\ state[1] = "state")

\* query.PageSize(n).PageState(token).Iter(): nil (<<>>) when the driver
\* refuses the query, else the one page that follows the paging state
V2Iter(n, o, req) ==
    IF ~IsPageState(req.NextPageToken) THEN <<>>
    ELSE LET scan == V2Scan(n, o, req)
             rest == IF req.NextPageToken = <<>> THEN scan
                     ELSE SelectSeq(scan, LAMBDA row : row.RunID < req.NextPageToken[2])
             page == SubSeq(rest, 1, Min(req.PageSize, Len(rest)))
         IN <<[rows |-> page,
               pageState |-> IF Len(rest) > Len(page) THEN PageStateAt(page[Len(page)])
                             ELSE <<>>]>>

\* readClosedWorkflowExecutionRecord: a row as a WorkflowExecutionInfo
readClosedWorkflowExecutionRecord(row) ==
    [Execution |-> [WorkflowId |-> row.WorkflowID, RunId |-> row.RunID],
     Type |-> row.WorkflowTypeName,
     StartTime |-> row.StartTime,
     ExecutionTime |-> IF row.ExecutionTime = 0 THEN row.StartTime ELSE row.ExecutionTime,
     CloseTime |-> row.CloseTime,
     CloseStatus |-> row.Status,
     HistoryLength |-> row.HistoryLength]

\* Errors iter.Close can return; isThrottlingError tells the overload apart
IterCloseErrors == {"none", "overloaded", "unavailable"}

isThrottlingError(err) == err = "overloaded"

\* The error of a list operation whose iterator closed with err, with every
\* driver error reported as Internal
V2CloseError_allInternal(o, err) == <<"InternalServiceError", o, err>>

\* The error of a list operation whose iterator closed with err
V2CloseError(o, err) ==
    IF isThrottlingError(err) THEN <<"ServiceBusyError", o, err>>
    ELSE <<"InternalServiceError", o, err>>

\* The response built from the rows read, without the driver's paging state
V2Response_noToken(rows, pageState) ==
    [Executions |-> [i \in 1..Len(rows) |-> readClosedWorkflowExecutionRecord(rows[i])],
     NextPageToken |-> <<>>]

\* The response built from the rows read and the driver's paging state
V2Response(rows, pageState) ==
    [Executions |-> [i \in 1..Len(rows) |-> readClosedWorkflowExecutionRecord(rows[i])],
     NextPageToken |-> pageState]

\* One of the four closed-list operations over a table of n rows.  closeErr
\* is what iter.Close returns; when it is an error the scan has stopped
\* after nRead rows of the page.
V2ListClosed(o, req, n, closeErr, nRead) ==
    LET iter == V2Iter(n, o, req)
    IN IF iter = <<>>
       THEN [err |-> <<"InternalServiceError", o, "Not able to create query iterator">>,
             resp |-> <<>>, iterated |-> FALSE, closeErr |-> "none",
             page |-> [rows |-> <<>>, pageState |-> <<>>], read |-> <<>>]
       ELSE LET rows == IF closeErr = "none" THEN iter[1].rows
                        ELSE SubSeq(iter[1].rows, 1, Min(nRead, Len(iter[1].rows)))
                response == V2Response(rows, iter[1].pageState)
            IN IF closeErr # "none"
               THEN [err |-> V2CloseError(o, closeErr), resp |-> <<>>, iterated |-> TRUE,
                     closeErr |-> closeErr, page |-> iter[1], read |-> response.Executions]
               ELSE [err |-> NoError, resp |-> <<response>>, iterated |-> TRUE,
                     closeErr |-> closeErr, page |-> iter[1], read |-> response.Executions]

\* The caller of the V2 store
V2PageSizes == {3, 10}
V2TimeRanges == {<<0, (MaxRecords + 1) * Ms>>, <<5 * Ms, 20 * Ms + 999>>}

V2Received(o, req, r, gotBefore, lensBefore) ==
    /\ cassLast' = [called |-> TRUE, o |-> o, req |-> req] @@ r
    /\ passed' = NoCall
    /\ IF r.err # NoError
       THEN cassSession' = [status |-> "failed"]
       ELSE cassSession' =
              [status |-> IF r.resp[1].NextPageToken = <<>> THEN "done" ELSE "paging",
               o |-> o, req |-> [req EXCEPT !.NextPageToken = <<>>],
               token |-> r.resp[1].NextPageToken,
               got |-> gotBefore \o r.resp[1].Executions,
               lens |-> Append(lensBefore, Len(r.resp[1].Executions))]

V2StartList(o, range, pageSize, closeErr, nRead) ==
    /\ cassSession.status = "idle"
    /\ LET req == ListRequest(range, pageSize, <<>>)
       IN V2Received(o, req, V2ListClosed(o, req, closedCount, closeErr, nRead), <<>>, <<>>)
    /\ UNCHANGED <<esVars, serVars, stackVars, concVars, metaVars, closedCount, deleted>>

V2ContinueList(closeErr, nRead) ==
    /\ cassSession.status = "paging"
    /\ LET req == [cassSession.req EXCEPT !.NextPageToken = cassSession.token]
       IN V2Received(cassSession.o, req,
                     V2ListClosed(cassSession.o, req, closedCount, closeErr, nRead),
                     cassSession.got, cassSession.lens)
    /\ UNCHANGED <<esVars, serVars, stackVars, concVars, metaVars, closedCount, deleted>>

\* A caller passes a token the driver refuses
V2ListWithToken(o, token) ==
    /\ cassSession.status = "idle"
    /\ LET req == ListRequest(<<0, (MaxRecords + 1) * Ms>>, 10, token)
       IN V2Received(o, req, V2ListClosed(o, req, closedCount, "none", 0), <<>>, <<>>)
    /\ UNCHANGED <<esVars, serVars, stackVars, concVars, metaVars, closedCount, deleted>>

V2EndSession ==
    /\ cassSession.status # "idle"
    /\ cassSession' = [status |-> "idle"]
    /\ cassLast' = NoCall
    /\ passed' = NoCall
    /\ UNCHANGED <<esVars, serVars, stackVars, concVars, metaVars, closedCount, deleted>>

\* The V1 manager writes one more closed execution
InsertClosedRow ==
    /\ cassSession.status = "idle"
    /\ closedCount < MaxRecords
    /\ closedCount' = closedCount + 1
    /\ UNCHANGED <<esVars, serVars, stackVars, concVars, metaVars, cassSession, cassLast, passed, deleted>>

\* The operations the V2 store leaves to the wrapped manager
PassThroughOps == {"GetName", "RecordWorkflowExecutionStarted", "RecordWorkflowExecutionClosed",
                   "ListOpenWorkflowExecutions", "ListOpenWorkflowExecutionsByType",
                   "ListOpenWorkflowExecutionsByWorkflowID", "GetClosedWorkflowExecution"}

\* The requests of the pass-through operations (GetName takes none)
PassThroughRequests(o) ==
    IF o = "GetName" THEN {<<>>}
    ELSE IF o \in OpenListOps THEN {<<ListRequest(<<0, 4 * Ms>>, 3, t)>> : t \in {<<>>, <<"#">>}}
    ELSE {<<req>> : req \in RecordRequests}

\* What the wrapped manager may answer: a result, or one of its errors
WrappedReplies(o) ==
    IF o = "GetName" THEN {[result |-> <<"cassandra">>, err |-> NoError]}
    ELSE IF o \in {"RecordWorkflowExecutionStarted", "RecordWorkflowExecutionClosed"}
    THEN {[result |-> <<>>, err |-> e] :
            e \in {NoError, <<"InternalServiceError", o>>, <<"TimeoutError", o>>}}
    ELSE {[result |-> <<"response">>, err |-> NoError]} \cup
         {[result |-> <<>>, err |-> e] :
            e \in {<<"InternalServiceError", o>>, <<"EntityNotExistsError", o>>,
                   <<"BadRequestError", o>>}}

\* A V2 store that reports every error of the wrapped manager as internal
PassThrough_internal(o, req, reply) ==
    [called |-> TRUE, o |-> o, req |-> req, wrapped |-> <<[o |-> o, req |-> req]>>,
     queries |-> 0, result |-> reply.result,
     err |-> IF reply.err = NoError THEN NoError ELSE <<"InternalServiceError", o>>,
     reply |-> reply]

\* return v.persistence.X(request): the call made on the wrapped manager, the
\* queries on the V2 session, and what the caller gets
PassThrough(o, req, reply) ==
    [called |-> TRUE, o |-> o, req |-> req, wrapped |-> <<[o |-> o, req |-> req]>>,
     queries |-> 0, result |-> reply.result, err |-> reply.err, reply |-> reply]

V2PassThrough(o, req, reply) ==
    /\ cassSession.status = "idle"
    /\ passed' = PassThrough(o, req, reply)
    /\ UNCHANGED <<esVars, serVars, stackVars, concVars, metaVars, closedCount, cassSession,
                   cassLast, deleted>>

\* DeleteWorkflowExecution of the V2 store: return nil
v2DeleteWorkflowExecution(req, n) ==
    [err |-> NoError, queries |-> 0, wrapped |-> <<>>, closedCount |-> n]

V2DeleteWorkflowExecution(req) ==
    /\ cassSession.status = "idle"
    /\ LET r == v2DeleteWorkflowExecution(req, closedCount)
       IN /\ closedCount' = r.closedCount
          /\ deleted' = [called |-> TRUE, store |-> "cassandraV2", req |-> req, err |-> r.err,
                         queries |-> r.queries, wrapped |-> r.wrapped]
    /\ UNCHANGED <<esVars, serVars, stackVars, concVars, metaVars, cassSession, cassLast, passed>>

----------------------------------------------------------------------------
(* One serializer shared by concurrent callers *)

Procs == 1..NumCallers

\* NewCadenceSerializer: the only field is the thriftrw encoder
NewCadenceSerializer == [thriftrwEncoder |-> "ThriftRWEncoder"]

\* The calls the callers make
ConcCalls ==
    {[dir |-> "deserialize", kind |-> k, blob |-> <<[Data |-> d, Encoding |-> e]>>] :
        k \in {"HistoryEvent", "Memo"},
        d \in {JSONBytes("HistoryEvent", <<1>>), JSONBytes("Memo", <<1, 2>>), Garbage},
        e \in {EncodingTypeJSON}}
    \cup
    {[dir |-> "deserialize", kind |-> "HistoryEvent",
      blob |-> <<[Data |-> ThriftBytes("HistoryEvent", <<2>>), Encoding |-> EncodingTypeThriftRW]>>]}
    \cup
    {[dir |-> "serialize", kind |-> "HistoryEvent", input |-> <<e>>, enc |-> enc] :
        e \in Events, enc \in {EncodingTypeJSON, EncodingTypeThriftRW}}

\* What the call returns when no other call runs
RunAlone(c) ==
    IF c.dir = "deserialize" THEN DeserializeOf(c.kind, c.blob)
    ELSE SerializeOf(c.kind, c.input, c.enc, FALSE)

\* All callers decoding into one variable kept with the serializer
TargetSlot_shared(p) == 1

\* Deserialize* declares the variable it decodes into (var event, var
\* events, var memo): one per call
TargetSlot(p) == p

Idle == [pc |-> "idle"]

\* A caller enters a serializer operation; a Deserialize* declares its target
CallBegin(p, c) ==
    /\ procs[p].pc = "idle"
    /\ procs' = [procs EXCEPT ![p] = [pc |-> "started", call |-> c]]
    /\ targets' = IF c.dir = "deserialize"
                  THEN [targets EXCEPT ![TargetSlot(p)] = <<ZeroValue(c.kind)>>]
                  ELSE targets
    /\ UNCHANGED <<esVars, serVars, stackVars, serializer, cassVars, metaVars>>

\* serialize builds the blob; deserialize decodes into the target
CallStep(p) ==
    /\ procs[p].pc = "started"
    /\ LET c == procs[p].call
       IN IF c.dir = "deserialize"
          THEN /\ targets[TargetSlot(p)] # <<>>
               /\ LET r == deserialize(c.blob, c.kind, targets[TargetSlot(p)][1])
                  IN /\ targets' = [targets EXCEPT ![TargetSlot(p)] = <<r.val>>]
                     /\ procs' = [procs EXCEPT ![p] =
                                     [pc |-> "decoded", call |-> c, err |-> r.err]]
          ELSE /\ targets' = targets
               /\ procs' = [procs EXCEPT ![p] =
                               [pc |-> "returned", call |-> c,
                                result |-> SerializeOf(c.kind, c.input, c.enc, FALSE)]]
    /\ UNCHANGED <<esVars, serVars, stackVars, serializer, cassVars, metaVars>>

\* Deserialize* returns the address of its target and the error
CallReturn(p) ==
    /\ procs[p].pc = "decoded"
    /\ targets[TargetSlot(p)] # <<>>
    /\ procs' = [procs EXCEPT ![p] =
                    [pc |-> "returned", call |-> procs[p].call,
                     result |-> [val |-> targets[TargetSlot(p)][1], err |-> procs[p].err]]]
    /\ targets' = [targets EXCEPT ![TargetSlot(p)] = <<>>]
    /\ UNCHANGED <<esVars, serVars, stackVars, serializer, cassVars, metaVars>>

\* The caller has used the result
CallEnd(p) ==
    /\ procs[p].pc = "returned"
    /\ procs' = [procs EXCEPT ![p] = Idle]
    /\ UNCHANGED <<esVars, serVars, stackVars, serializer, targets, cassVars, metaVars>>

----------------------------------------------------------------------------
InitES ==
    /\ index = {}
    /\ status = "idle"
    /\ op = "ListOpenWorkflowExecutions"
    /\ request = ListRequest(<<0, 4 * Ms>>, 1, <<>>)
    /\ nextToken = <<>>
    /\ got = <<>>
    /\ calls = 0
    /\ changes = 0
    /\ last = NoCall
    /\ getResp = NoCall
    /\ logged = {}
    /\ recorded = NoCall

InitSer == ser = [phase |-> "init"]

InitStack ==
    /\ stack = <<>>
    /\ bucket = BucketSize
    /\ quota = 1
    /\ counters = [metricsRequests |-> 0, backendCalls |-> 0]
    /\ lastReq = [called |-> FALSE]

InitConc ==
    /\ serializer = NewCadenceSerializer
    /\ procs = [p \in Procs |-> Idle]
    /\ targets = [p \in Procs |-> <<>>]

InitCass ==
    /\ closedCount = 0
    /\ cassSession = [status |-> "idle"]
    /\ cassLast = NoCall
    /\ passed = NoCall
    /\ deleted = NoCall

InitStop ==
    svc = [pc |-> "new", enable |-> FALSE, stopCalls |-> 0, dropped |-> 0, afterStart |-> FALSE]

InitMeta ==
    /\ notificationVersion = 0
    /\ updaters = [c \in Clients |-> [pc |-> "idle"]]
    /\ applied = {}

Init == InitES /\ InitSer /\ InitStack /\ InitConc /\ InitCass /\ InitStop /\ InitMeta

NextES ==
    \/ \E o \in ListOps, range \in TimeRanges, pageSize \in 1..MaxPageSize :
          StartList(o, range, pageSize)
    \/ \E o \in ListOps, pageSize \in 1..MaxPageSize, token \in MalformedTokens :
          ListWithToken(o, pageSize, token)
    \/ ContinueList
    \/ EndSession
    \/ \E req \in RecordRequests : RecordWorkflowExecutionStarted(req)
    \/ \E req \in RecordRequests : RecordWorkflowExecutionClosed(req)
    \/ \E wid \in {"W", "V"}, rid \in {0, 5, 6} : GetClosedWorkflowExecution(wid, rid)
    \/ \E d \in Universe : IndexDocument(d)
    \/ \E d \in Universe : ExpireDocument(d)

NextSer ==
    \/ \E e \in Events, enc \in Encodings, me \in BOOLEAN : CallSerializeEvent(e, enc, me)
    \/ \E b \in Batches, enc \in Encodings, me \in BOOLEAN :
          CallSerializeBatchEvents(b, enc, me)
    \/ \E m \in Memos, enc \in Encodings, me \in BOOLEAN :
          CallSerializeVisibilityMemo(m, enc, me)
    \/ \E kind \in {"HistoryEvent", "Batch", "Memo"}, enc \in Encodings :
          CallSerializeNil(kind, enc)
    \/ ReadBack
    \/ \E blob \in StoredBlobs : CallDeserializeEvent(blob)
    \/ \E blob \in StoredBlobs : CallDeserializeBatchEvents(blob)
    \/ \E blob \in StoredBlobs : CallDeserializeVisibilityMemo(blob)

NextStack ==
    \/ \E enable \in BOOLEAN : ServiceStart(enable)
    \/ \E isList \in BOOLEAN : VisibilityRequest(isList)
    \/ Refill

NextConc ==
    \/ \E p \in Procs, c \in ConcCalls : CallBegin(p, c)
    \/ \E p \in Procs : CallStep(p)
    \/ \E p \in Procs : CallReturn(p)
    \/ \E p \in Procs : CallEnd(p)

NextCass ==
    \/ \E o \in ClosedListOps, range \in V2TimeRanges, pageSize \in V2PageSizes,
          closeErr \in IterCloseErrors, nRead \in {0, 2} :
          V2StartList(o, range, pageSize, closeErr, nRead)
    \/ \E closeErr \in IterCloseErrors, nRead \in {0, 2} : V2ContinueList(closeErr, nRead)
    \/ \E o \in ClosedListOps : V2ListWithToken(o, <<"#">>)
    \/ V2EndSession
    \/ InsertClosedRow
    \/ \E o \in PassThroughOps : \E req \in PassThroughRequests(o), reply \in WrappedReplies(o) :
          V2PassThrough(o, req, reply)

NextDelete ==
    \/ \E d \in {u \in Universe : u.WorkflowID = "W"} : SeedDocument(d)
    \/ InsertClosedRow
    \/ \E req \in DeleteRequests : DeleteWorkflowExecution(req)
    \/ \E req \in DeleteRequests : V2DeleteWorkflowExecution(req)

NextMeta ==
    \/ \E c \in Clients : SelectFromDomainMetadata(c)
    \/ \E c \in Clients : UpdateDomainMetadata(c)
    \/ \E c \in Clients : UpdateDone(c)

NextStop ==
    \/ \E enable \in BOOLEAN : Start(enable)
    \/ StartStep
    \/ Stop
    \/ StartReturn

NextLive ==
    \/ \E d \in {u \in Universe : ~u.HasCloseStatus /\ u.WorkflowID = "W"} : SeedDocument(d)
    \/ \E o \in ListOps, pageSize \in 1..MaxPageSize : StartList(o, <<0, 4 * Ms>>, pageSize)
    \/ ContinueScan

\* The search store and its caller
Spec == Init /\ [][NextES]_vars

\* The serializer and its callers
SpecSer == Init /\ [][NextSer]_vars

\* The frontend service's visibility stack
SpecStack == Init /\ [][NextStack]_vars

\* The columnar V2 store and its caller
SpecCass == Init /\ [][NextCass]_vars

\* Concurrent callers of one serializer
SpecConc == Init /\ [][NextConc]_vars

\* Deletes on both visibility stores
SpecDelete == Init /\ [][NextDelete]_vars

\* Clients of the domain_metadata table, each on its own connection
SpecMeta == Init /\ [][NextMeta]_vars

\* Start in its goroutine, Stop called from others: Start is scheduled
\* whenever it can run
SpecStop == Init /\ [][NextStop]_vars /\ WF_vars(StartStep) /\ WF_vars(StartReturn)

\* A caller paging to the end over a fixed index; it never gives up
SpecLive == Init /\ [][NextLive]_vars /\ WF_vars(ContinueScan)

----------------------------------------------------------------------------
(* Properties of the search store's paging *)

\* The full matching result of a list operation over docs, in
\* (sort field DESC, run id DESC) order, converted as the operation converts
FullScan(o, req, docs) ==
    LET params == SearchParameters(req, ZeroToken, matchQueryOf(o, req), isOpenOf(o))
        sorted == Sorted({d \in docs : Matches(d, params)}, params.SortField)
    IN [i \in 1..Len(sorted) |-> convertSearchResultToVisibilityRecord(sorted[i], isOpenOf(o))]

IsPrefix(a, b) == Len(a) <= Len(b) /\ a = SubSeq(b, 1, Len(a))

\* C1: over a fixed index, the pages of a session started with an empty
\* token are, concatenated, the full matching result in sort order: each
\* page continues the scan, and the scan is complete at the empty token.
AllReadable(docs) == \A d \in docs : d.SourceOK

C1_PagesAreTheFullScan ==
    (status \in {"paging", "done"} /\ changes = 0 /\ AllReadable(index)) =>
        /\ IsPrefix(got, FullScan(op, request, index))
        /\ status = "done" => got = FullScan(op, request, index)

\* C2: a list response carries a next page token exactly when the number
\* of hits returned equals the page size of the request.
C2_TokenIffFullPage ==
    (last.called /\ last.err = NoError) =>
        /\ Len(last.resp[1].Executions) = Len(last.hits)
        /\ (last.resp[1].NextPageToken # <<>>) <=> (Len(last.hits) = last.req.PageSize)

C2_Witness ==
    /\ last.called /\ last.err = NoError
    /\ calls >= 2
    /\ Len(last.hits) > 0
    /\ Len(last.hits) < last.req.PageSize
    /\ last.resp[1].NextPageToken = <<>>

\* C3: offset mode.  A full page with total hits within the result window
\* emits a token that decodes to from = from of the request's token (0
\* without token) + number of hits, sort time 0 and empty tie breaker.
RequestFrom(req) ==
    IF req.NextPageToken = <<>> THEN 0 ELSE deserializePageToken(req.NextPageToken).token.From

IsFullPage(c) == c.called /\ c.err = NoError /\ Len(c.hits) = c.req.PageSize

C3_OffsetToken ==
    (IsFullPage(last) /\ last.totalHits <= ESIndexMaxResultWindow) =>
        LET t == deserializePageToken(last.resp[1].NextPageToken)
        IN /\ t.err = NoError
           /\ t.token.From = RequestFrom(last.req) + Len(last.hits)
           /\ t.token.SortTime = 0
           /\ t.token.TieBreaker = 0

C3_Witness ==
    /\ IsFullPage(last)
    /\ last.totalHits <= ESIndexMaxResultWindow
    /\ RequestFrom(last.req) > 0
    /\ deserializePageToken(last.resp[1].NextPageToken).token.From = 2

\* C4: search-after mode.  A full page with total hits above the result
\* window emits a token with the sort time and the run id of the last
\* record of the page and from 0, and every request that bears a token of
\* that mode passes exactly (sort time, tie breaker) as search_after.
C4_SearchAfterToken ==
    /\ (IsFullPage(last) /\ last.totalHits > ESIndexMaxResultWindow
           /\ last.hits[Len(last.hits)].SourceOK) =>
          LET t == deserializePageToken(last.resp[1].NextPageToken).token
              lastHit == last.hits[Len(last.hits)]
          IN /\ t.From = 0
             /\ t.SortTime = FieldTime(lastHit, last.params.SortField)
             /\ t.TieBreaker = lastHit.RunID
    /\ (last.called /\ last.tokenMode = "searchAfter" /\ last.searched
           /\ last.prevLast # <<>> /\ last.prevLast[1].SourceOK) =>
          last.params.SearchAfter = <<last.token.SortTime, last.token.TieBreaker>>

\* C5: once the total has crossed the result window within a session, in
\* either direction, each page still begins directly after the last record
\* of the page before it.
ContinuesAfter(c, docs) ==
    LET matching == {d \in docs : Matches(d, c.params)}
        after == {d \in matching :
                     SortsBefore(c.prevLast[1], d, c.params.SortField)}
        sorted == Sorted(after, c.params.SortField)
    IN c.hits = SubSeq(sorted, 1, Min(c.req.PageSize, Len(sorted)))

C5_ModesCoexist ==
    (last.called /\ last.err = NoError /\ last.crossed /\ last.prevLast # <<>>
        /\ last.prevLast[1].SourceOK) =>
        ContinuesAfter(last, index)

\* C10: a document whose memo cannot be decoded is returned without a memo
\* and without failing the call, and an error is logged with its id.
MemoUndecodable(hit) ==
    /\ hit.SourceOK
    /\ Len(hit.Memo) > 0
    /\ IF hit.Encoding = EncodingTypeThriftRW
       THEN thriftrwEncoderDecode(hit.Memo, "Memo").err # NoError
       ELSE jsonUnmarshal(hit.Memo, "Memo", ZeroValue("Memo")).err # NoError

DroppedMemo(hit, rec, logs) ==
    /\ rec # <<>>
    /\ rec[1].Memo = <<>>
    /\ \E l \in logs : l.docID = hit.DocID

C10_UndecodableMemoDropped ==
    /\ (last.called /\ last.err = NoError) =>
          \A i \in 1..Len(last.hits) :
             MemoUndecodable(last.hits[i]) =>
                DroppedMemo(last.hits[i], last.resp[1].Executions[i], logged)
    /\ (getResp.called /\ getResp.hit # <<>> /\ MemoUndecodable(getResp.hit[1])) =>
          /\ getResp.err = NoError
          /\ DroppedMemo(getResp.hit[1], getResp.Execution, logged)

\* C11: every list query filters the sort field on the closed range
\* [earliest - 1 ms, latest + 1 ms] in nanoseconds, so a document whose sort
\* time lies within 1 ms outside the requested range is still matched.
WithinOneMs(d, c) ==
    /\ FieldTime(d, c.params.RangeField) >= c.req.EarliestStartTime - Ms
    /\ FieldTime(d, c.params.RangeField) <= c.req.LatestStartTime + Ms
    /\ d.DomainID = c.params.Domain
    /\ MatchesMatch(d, c.params.Match)
    /\ d.HasCloseStatus = c.params.MustExistCloseStatus

C11_RangeWidenedByOneMs ==
    (last.called /\ last.searched /\ last.err = NoError) =>
        /\ last.params.Gte = last.req.EarliestStartTime - Ms
        /\ last.params.Lte = last.req.LatestStartTime + Ms
        /\ last.totalHits = Cardinality({d \in index : WithinOneMs(d, last)})

\* C13: a list operation given a non-empty page token that does not decode
\* returns BadRequest, no response, and issues no search; an empty token is
\* no error and starts the scan at from = 0 with no search_after.
Undecodable(token) == Len(token) > 0 /\ deserializePageToken(token).err # NoError

C13_MalformedTokenIsBadRequest ==
    last.called =>
        /\ Undecodable(last.req.NextPageToken) =>
              /\ last.err = <<"BadRequestError", "unable to deserialize page token">>
              /\ last.resp = <<>>
              /\ ~last.searched
        /\ last.req.NextPageToken = <<>> =>
              /\ last.searched
              /\ last.params.From = 0
              /\ last.params.SearchAfter = <<>>
              /\ (last.err # NoError => last.err[1] # "BadRequestError")

C13_Witness ==
    /\ last.called
    /\ last.o \in ClosedListOps
    /\ Undecodable(last.req.NextPageToken)
    /\ last.err # NoError
    /\ index # {}

\* C20: RecordWorkflowExecutionStarted and RecordWorkflowExecutionClosed on
\* the search store return the OperationNotSupported error for every
\* request, do not contact the index and change no state of the store.
C20_RecordNotSupported ==
    [][(recorded' # recorded /\ recorded'.called) =>
          /\ recorded'.err = errOperationNotSupported
          /\ ~recorded'.searched
          /\ index' = index]_vars

C20_Witness ==
    /\ recorded.called
    /\ recorded.o = "RecordWorkflowExecutionClosed"
    /\ recorded.err # NoError
    /\ index # {}

\* C22: GetClosedWorkflowExecution queries domain_id, existing close_status
\* and workflow_id, adds a run_id clause exactly when the request's run_id
\* is non-empty, and returns the first hit converted as a closed record;
\* with zero hits it returns an empty response and no error.
ClosedExecutionsOf(req, docs) ==
    {d \in docs : /\ d.DomainID = req.DomainUUID
                  /\ d.HasCloseStatus
                  /\ d.WorkflowID = req.WorkflowID
                  /\ (req.RunID # 0 => d.RunID = req.RunID)}

IsClosedRecordOf(rec, hit) ==
    /\ rec # <<>>
    /\ rec[1].Execution = [WorkflowId |-> hit.WorkflowID, RunId |-> hit.RunID]
    /\ rec[1].StartTime = <<hit.StartTime>>
    /\ rec[1].CloseTime = <<hit.CloseTime>>
    /\ rec[1].CloseStatus = <<hit.CloseStatus>>
    /\ rec[1].HistoryLength = <<hit.HistoryLength>>

C22_PointLookup ==
    [][(getResp' # getResp /\ getResp'.called) =>
          /\ getResp'.err = NoError
          /\ IF ClosedExecutionsOf(getResp'.req, index) = {}
             THEN getResp'.hit = <<>> /\ getResp'.Execution = <<>>
             ELSE /\ getResp'.hit # <<>>
                  /\ getResp'.hit[1] \in ClosedExecutionsOf(getResp'.req, index)
                  /\ getResp'.hit[1].SourceOK =>
                        IsClosedRecordOf(getResp'.Execution, getResp'.hit[1])]_vars

C22_Witness ==
    /\ getResp.called
    /\ getResp.req.RunID = 0
    /\ getResp.hit # <<>>
    /\ getResp.hit[1].RunID = 5
    /\ IsClosedRecordOf(getResp.Execution, getResp.hit[1])
    /\ Cardinality(ClosedExecutionsOf(getResp.req, index)) > 1

\* C24: open and closed lists never mix.  An open-list query excludes the
\* documents in which close_status exists and its records have no
\* close_time, close_status or history_length; a closed-list query requires
\* close_status to exist and its records carry close_time and close_status.
ListSucceeded == last.called /\ last.searched /\ last.err = NoError

C24_OpenAndClosedNeverMix ==
    ListSucceeded =>
        /\ \A i \in 1..Len(last.hits) : last.hits[i].HasCloseStatus = ~isOpenOf(last.o)
        /\ \A i \in 1..Len(last.resp[1].Executions) :
              LET rec == last.resp[1].Executions[i]
              IN rec # <<>> =>
                   IF isOpenOf(last.o)
                   THEN /\ rec[1].CloseTime = <<>>
                        /\ rec[1].CloseStatus = <<>>
                        /\ rec[1].HistoryLength = <<>>
                   ELSE /\ rec[1].CloseTime # <<>>
                        /\ rec[1].CloseStatus # <<>>

C24_Witness ==
    /\ ListSucceeded
    /\ last.o = "ListClosedWorkflowExecutions"
    /\ Len(last.resp[1].Executions) = 1
    /\ last.resp[1].Executions[1] # <<>>
    /\ last.resp[1].Executions[1][1].CloseTime = <<3 * Ms>>
    /\ \E d \in index : ~d.HasCloseStatus /\ d.StartTime = 2 * Ms

\* C25: every record returned, by a list operation or by the point lookup,
\* has execution_time equal to the stored execution_time when that is not
\* zero and equal to the record's start_time when it is zero.
ExecutionTimeDefaulted(rec, hit) ==
    rec # <<>> =>
        rec[1].ExecutionTime = IF hit.ExecutionTime # 0 THEN <<hit.ExecutionTime>>
                               ELSE rec[1].StartTime

C25_ExecutionTimeDefault ==
    /\ ListSucceeded =>
          \A i \in 1..Len(last.hits) :
              ExecutionTimeDefaulted(last.resp[1].Executions[i], last.hits[i])
    /\ (getResp.called /\ getResp.hit # <<>>) =>
          ExecutionTimeDefaulted(getResp.Execution, getResp.hit[1])

C25_Witness ==
    /\ ListSucceeded
    /\ Len(last.hits) > 0
    /\ last.hits[1].ExecutionTime = 0
    /\ last.hits[1].StartTime = 2 * Ms
    /\ last.resp[1].Executions[1] # <<>>
    /\ last.resp[1].Executions[1][1].ExecutionTime = <<2 * Ms>>

\* C26: every query issued in offset mode has from + page_size within the
\* result window: no session with total hits within the window produces a
\* token whose from plus the page size exceeds the window.
C26_OffsetWithinWindow ==
    (last.called /\ last.searched /\ last.tokenMode # "searchAfter"
        /\ last.req.PageSize <= ESIndexMaxResultWindow) =>
        last.params.From + last.params.PageSize <= ESIndexMaxResultWindow

\* C28: a successful list response holds exactly one entry per hit of the
\* search, in hit order, and every entry is a record, none is nil, also
\* when the source of a hit cannot be unmarshalled.
C28_OneRecordPerHit ==
    ListSucceeded =>
        /\ Len(last.resp[1].Executions) = Len(last.hits)
        /\ \A i \in 1..Len(last.hits) :
              /\ last.resp[1].Executions[i] # <<>>
              /\ last.resp[1].Executions[i][1].Execution.RunId = last.hits[i].RunID

----------------------------------------------------------------------------
(* Properties of the frontend's visibility stack *)

\* C6: the metrics wrapper is innermost and the rate limiter outermost, so a
\* request one of the admission wrappers rejects does not pass the metrics
\* wrapper, and metrics count exactly the requests that reach the backend.
C6_MetricsClosestToBackend ==
    /\ stack # <<>> => (stack[Len(stack)] = "metrics" /\ stack[1] = "rateLimit")
    /\ (lastReq.called /\ lastReq.rejectedBy # "") =>
          \A i \in 1..Len(lastReq.path) : lastReq.path[i] # "metrics"
    /\ counters.metricsRequests = counters.backendCalls

----------------------------------------------------------------------------
(* Properties of the serializer *)

\* C7: round trip.  A non-nil value of any of the three kinds serialized as
\* JSON or THRIFT_RW gives a blob, and deserializing the blob gives the value.
C7_RoundTrip ==
    /\ (ser.phase = "serialized" /\ ~ser.marshalErr
           /\ ser.enc \in {EncodingTypeJSON, EncodingTypeThriftRW}) =>
          (ser.res.err = NoError /\ ser.res.blob # <<>>)
    /\ (ser.phase = "roundtrip"
           /\ ser.enc \in {EncodingTypeJSON, EncodingTypeThriftRW}) =>
          (ser.out.err = NoError /\ ser.out.val = ser.input[1])

C7_Witness ==
    /\ ser.phase = "roundtrip"
    /\ ser.enc = EncodingTypeThriftRW
    /\ ser.kind = "Batch"
    /\ Len(ser.input[1]) = 2
    /\ ser.out.val = ser.input[1]

\* C8 as stated: a serialize operation given GOB or any tag other than the
\* recognized encodings JSON and THRIFT_RW returns UnknownEncoding, no blob.
IsUnknownEncodingError(res) ==
    /\ res.err # NoError
    /\ res.err[1] = "UnknownEncodingTypeError"
    /\ res.blob = <<>>

C8_Original ==
    (ser.phase = "serialized"
        /\ ser.enc \notin {EncodingTypeJSON, EncodingTypeThriftRW}) =>
       IsUnknownEncodingError(ser.res)

\* C8 as amended: a serialize operation given GOB or any tag other than
\* JSON, THRIFT_RW, UNKNOWN and the empty tag returns UnknownEncoding and
\* no blob; UNKNOWN and the empty tag are written as JSON.
C8_UnknownEncodingOnWrite ==
    (ser.phase = "serialized"
        /\ ser.enc \notin {EncodingTypeJSON, EncodingTypeThriftRW,
                           EncodingTypeUnknown, EncodingTypeEmpty}) =>
       (IsUnknownEncodingError(ser.res) /\ ser.res.err[2] = ser.enc)

C8_Witness ==
    /\ ser.phase = "serialized"
    /\ ser.enc = EncodingTypeGob
    /\ ser.kind = "Memo"
    /\ IsUnknownEncodingError(ser.res)

\* C9: a failing marshal step makes serialize return a Serialization error;
\* a failing unmarshal step makes deserialize return a Deserialization
\* error that names the blob's encoding tag, for all three kinds and both
\* encodings, a THRIFT_RW memo included.
AcceptedOnWrite == {EncodingTypeJSON, EncodingTypeThriftRW, EncodingTypeUnknown,
                    EncodingTypeEmpty}

UnmarshalFails(blob, kind) ==
    /\ blob # <<>>
    /\ Len(blob[1].Data) > 0
    /\ GetEncoding(blob[1]) \in AcceptedOnWrite
    /\ IF GetEncoding(blob[1]) = EncodingTypeThriftRW
       THEN thriftrwEncoderDecode(blob[1].Data, ThriftTypeOf(kind)).err # NoError
       ELSE jsonUnmarshal(blob[1].Data, kind, ZeroValue(kind)).err # NoError

C9_CodecFailuresReported ==
    /\ (ser.phase = "serialized" /\ ser.marshalErr /\ ser.enc \in AcceptedOnWrite) =>
          (ser.res.err # NoError /\ ser.res.err[1] = "CadenceSerializationError"
             /\ ser.res.blob = <<>>)
    /\ (ser.phase = "read" /\ UnmarshalFails(ser.blob, ser.kind)) =>
          /\ ser.out.err # NoError
          /\ ser.out.err[1] = "CadenceDeserializationError"
          /\ ser.out.err[3] = ser.blob[1].Encoding

\* C15 as stated: a serialize operation called with a non-nil value and the
\* empty encoding tag succeeds and returns a blob whose data is the JSON
\* encoding of the value and whose encoding tag is JSON.
SerializedWithEmptyTag ==
    ser.phase = "serialized" /\ ser.enc = EncodingTypeEmpty /\ ~ser.marshalErr

C16_NilInputNilBlob ==
    ser.phase = "serializedNil" =>
        (ser.res.blob = <<>> /\ ser.res.err = NoError)

\* C17: each deserialize operation given a blob whose data has length 0
\* returns a Deserialization error saying the data is empty, whatever the
\* blob's encoding tag.
HasEmptyData(blob) == blob # <<>> /\ Len(blob[1].Data) = 0

C17_EmptyDataIsError ==
    (ser.phase = "read" /\ HasEmptyData(ser.blob)) =>
        /\ ser.out.err # NoError
        /\ ser.out.err[1] = "CadenceDeserializationError"
        /\ ser.out.err[2] = "DeserializeEvent empty data"

C17_Witness ==
    /\ ser.phase = "read"
    /\ HasEmptyData(ser.blob)
    /\ ser.blob[1].Encoding = EncodingTypeGob
    /\ ser.kind = "Batch"
    /\ ser.out.err # NoError

\* C18: a deserialize operation decodes a blob tagged UNKNOWN or EMPTY
\* exactly as it decodes a JSON-tagged blob with the same data: same value,
\* same error outcome.
SameOutcome(a, b) ==
    /\ a.val = b.val
    /\ (a.err = NoError) = (b.err = NoError)
    /\ a.err # NoError => a.err[1] = b.err[1]

C18_UnknownAndEmptyReadAsJSON ==
    (ser.phase = "read" /\ ser.blob # <<>>
        /\ ser.blob[1].Encoding \in {EncodingTypeUnknown, EncodingTypeEmpty}) =>
        SameOutcome(ser.out,
                    DeserializeOf(ser.kind,
                        <<[Data |-> ser.blob[1].Data, Encoding |-> EncodingTypeJSON]>>))

C18_Witness ==
    /\ ser.phase = "read"
    /\ ser.blob # <<>>
    /\ ser.blob[1].Encoding = EncodingTypeUnknown
    /\ ser.kind = "HistoryEvent"
    /\ ser.blob[1].Data = JSONBytes("HistoryEvent", <<1>>)
    /\ ser.out = [val |-> [EventId |-> 1], err |-> NoError]

----------------------------------------------------------------------------
(* Properties of the columnar V2 store *)

\* C12: when the driver iterator of a closed-list operation closes with a
\* throttling error the operation returns ServiceBusy, when it closes with
\* any other error it returns Internal naming the operation and the cause,
\* and in both cases the response is nil: the rows read are discarded.
C12_ThrottlingIsServiceBusy ==
    (cassLast.called /\ cassLast.iterated /\ cassLast.closeErr # "none") =>
        /\ cassLast.resp = <<>>
        /\ cassLast.err[2] = cassLast.o
        /\ cassLast.err[3] = cassLast.closeErr
        /\ cassLast.err[1] = IF cassLast.closeErr = "overloaded" THEN "ServiceBusyError"
                             ELSE "InternalServiceError"

C12_Witness ==
    /\ cassLast.called
    /\ cassLast.o = "ListClosedWorkflowExecutionsByStatus"
    /\ cassLast.closeErr = "overloaded"
    /\ Len(cassLast.read) = 2
    /\ cassLast.resp = <<>>
    /\ cassLast.err[1] = "ServiceBusyError"

\* C14: pagination stability.  A closed-list call returns the rows of one
\* driver page in the driver's order (close_time descending) with the
\* driver's paging state as token, non-empty while rows remain and empty
\* after the last page; the pages of a session are contiguous; 25 records
\* read with page size 10 come as pages of 10, 10 and 5.
V2FullScan(s) ==
    LET scan == V2Scan(closedCount, s.o, s.req)
    IN [i \in 1..Len(scan) |-> readClosedWorkflowExecutionRecord(scan[i])]

C14_PaginationStability ==
    /\ (cassLast.called /\ cassLast.err = NoError) =>
          /\ Len(cassLast.resp[1].Executions) = Len(cassLast.page.rows)
          /\ \A i \in 1..Len(cassLast.page.rows) :
                /\ cassLast.resp[1].Executions[i].Execution.RunId = cassLast.page.rows[i].RunID
                /\ i > 1 => cassLast.resp[1].Executions[i].CloseTime
                                <= cassLast.resp[1].Executions[i - 1].CloseTime
          /\ cassLast.resp[1].NextPageToken = cassLast.page.pageState
    /\ cassSession.status \in {"paging", "done"} =>
          /\ IsPrefix(cassSession.got, V2FullScan(cassSession))
          /\ (cassSession.token = <<>>) = (cassSession.got = V2FullScan(cassSession))
    /\ (/\ cassSession.status = "done"
        /\ closedCount = 25
        /\ cassSession.o = "ListClosedWorkflowExecutions"
        /\ cassSession.req.PageSize = 10
        /\ cassSession.req.LatestStartTime >= 25 * Ms
        /\ cassSession.req.EarliestStartTime = 0) =>
          cassSession.lens = <<10, 10, 5>>

C14_Witness ==
    /\ cassSession.status = "done"
    /\ closedCount = 25
    /\ cassSession.o = "ListClosedWorkflowExecutions"
    /\ cassSession.lens = <<10, 10, 5>>
    /\ cassSession.got[1].CloseTime = 25
    /\ cassSession.got[25].CloseTime = 1

----------------------------------------------------------------------------
(* Properties of the operations the stores do not implement themselves *)

\* Every list and point lookup of both stores, as the tables stand
LookupsOf(docs, n) ==
    [es |-> [o \in ListOps |-> ListCall(o, ListRequest(<<0, 4 * Ms>>, MaxPageSize, <<>>), docs)],
     point |-> [rid \in {0, 1, 5} |->
                  GetClosedHits(docs, GetClosedParams([DomainUUID |-> "D", WorkflowID |-> "W",
                                                       RunID |-> rid]))],
     v2 |-> [o \in ClosedListOps |->
               V2ListClosed(o, ListRequest(<<0, (MaxRecords + 1) * Ms>>, 10, <<>>), n, "none", 0)]]

\* C21: DeleteWorkflowExecution on the V2 store and on the search store
\* returns no error for every request and has no effect: no query is issued,
\* the wrapped manager is not called, and every list and point lookup
\* returns after the call what it returned before it.
C21_DeleteHasNoEffect ==
    [][deleted' # deleted =>
         /\ deleted'.called
         /\ deleted'.err = NoError
         /\ deleted'.queries = 0
         /\ deleted'.wrapped = <<>>
         /\ index' = index
         /\ closedCount' = closedCount
         /\ LookupsOf(index', closedCount') = LookupsOf(index, closedCount)]_vars

\* A delete was asked of the search store for an execution the index holds
\* a closed record of, and of a V2 table that has rows
C21_Witness ==
    /\ deleted.called
    /\ deleted.store = "es"
    /\ closedCount > 0
    /\ \E d \in index : /\ d.DomainID = deleted.req.DomainID
                        /\ d.RunID = deleted.req.RunID
                        /\ d.HasCloseStatus

\* C23: each pass-through operation of the V2 store calls the same operation
\* of the wrapped manager exactly once with the request it was given, returns
\* that call's result and error unchanged, and issues no query on the V2
\* session.
C23_PassThrough ==
    passed.called =>
        /\ passed.o \in PassThroughOps
        /\ Len(passed.wrapped) = 1
        /\ passed.wrapped[1] = [o |-> passed.o, req |-> passed.req]
        /\ passed.result = passed.reply.result
        /\ passed.err = passed.reply.err
        /\ passed.queries = 0

\* The wrapped manager failed a GetClosedWorkflowExecution with an error that
\* is not an internal one, while the V2 table has rows
C23_Witness ==
    /\ passed.called
    /\ passed.o = "GetClosedWorkflowExecution"
    /\ passed.reply.err # NoError
    /\ passed.reply.err[1] = "EntityNotExistsError"
    /\ closedCount > 0

----------------------------------------------------------------------------
(* Termination of a paging session *)

\* C27: over a fixed finite index and with page_size >= 1, a caller that
\* keeps passing the returned token back receives a response with an empty
\* token after finitely many calls.  Stated here in its weakest form: the
\* session ends, with an empty token or with an error.
C27_SessionTerminates == (status = "paging") ~> (status # "paging")

----------------------------------------------------------------------------
(* Shutdown of the frontend service *)

\* C29: Stop never blocks, and a Stop call made at any moment after Start
\* has been invoked eventually makes Start call base.Stop and return.
C29_StopEndsStart == svc.afterStart ~> (svc.pc = "returned")

----------------------------------------------------------------------------
(* The notification version of the domain metadata *)

\* The update client c makes in this step, if it makes one
UpdateBy(c) == updaters[c].pc = "read" /\ updaters'[c].pc = "updated"

\* C30: UpdateDomainMetadata is a compare-and-set on notification_version:
\* it changes the stored value only when it equals the version of the given
\* row and then sets it to that version + 1; of the updates carrying one
\* version at most one modifies the row; the stored version never decreases
\* and grows by exactly 1 per update that takes effect.
C30_CompareAndSet ==
    [][/\ \A c \in Clients :
            UpdateBy(c) =>
                LET v == updaters[c].row.NotificationVersion
                IN IF notificationVersion = v
                   THEN /\ notificationVersion' = v + 1
                        /\ updaters'[c].rowsAffected = 1
                   ELSE /\ notificationVersion' = notificationVersion
                        /\ updaters'[c].rowsAffected = 0
       /\ \A v \in 0..MaxVersion : Cardinality({a \in applied' : a.version = v}) <= 1
       /\ notificationVersion' >= notificationVersion
       /\ notificationVersion' = notificationVersion + Cardinality(applied' \ applied)
       /\ notificationVersion' # notificationVersion => \E c \in Clients : UpdateBy(c)]_vars

\* Two clients updated with the same version: one changed the row, the
\* other did not
C30_Witness ==
    /\ notificationVersion >= 2
    /\ \E c, d \in Clients :
          /\ updaters[c].pc = "updated" /\ updaters[d].pc = "updated"
          /\ updaters[c].row = updaters[d].row
          /\ updaters[c].rowsAffected = 1 /\ updaters[d].rowsAffected = 0

====
